---- MODULE Spec2Model ----
(***************************************************************************)
(* Model of orchestrator.py: the batch loop of main, the two per-entry     *)
(* controllers process_github_workflow and process_azure_pipeline, and the *)
(* two polling loops wait_for_github_workflow and wait_for_azure_pipeline. *)
(* Remote services are the environment: every HTTP call draws its reply    *)
(* (status code and payload), every status request draws the time it takes *)
(* and may fail in transport, in which case requests.get raises.           *)
(***************************************************************************)
EXTENDS Integers, Sequences, FiniteSets

\* ---------------------------------------------------------------- bounds
MaxEntries == 2      \* longest configuration list
MaxTimeout == 2      \* largest --timeout
MaxInterval == 2     \* largest --check-interval
MaxLatency == 1      \* longest time one status request takes

\* ------------------------------------------------------------- constants
SettleDelay == 5     \* time.sleep(5) between dispatch and run lookup

\* ---------------------------------------------------------------- inputs
\* A configuration entry: its "type" key ("other": absent or unknown), its
\* "enabled" key, and whether the keys its type requires are all present.
\* An entry of another type requires no key, so it comes in one shape; main
\* reads nothing but "enabled" of a disabled entry (lines 317-319), so a
\* disabled entry comes as a GitHub one, with and without its keys.
Items ==
  { it \in [type : {"github", "azure", "other"}, enabled : BOOLEAN, complete : BOOLEAN] :
      /\ it.type = "other" => it.complete /\ it.enabled
      /\ ~it.enabled => it.type = "github" }

Configs == UNION { [1..n -> Items] : n \in 1..MaxEntries }

\* --timeout is any int; negative values are accepted by argparse.
Timeouts == (0 - 2)..MaxTimeout

Intervals == 1..MaxInterval

\* Run ids are opaque to the program: it tests one for truth and passes it
\* on. 0 stands for every falsy id (None, 0, an empty run list), 42 for the
\* others.
RunIds == {0, 42}

\* Replies of the GitHub workflow-dispatch endpoint: the status code.
GithubDispatchReplies == {"204", "401", "500"}

\* Replies of the Azure run-creation endpoint, with the "id" of the body.
AzureDispatchReplies ==
  [code : {"200"}, id : RunIds] \cup [code : {"401", "500"}, id : {0}]

\* Replies of the GitHub list-runs endpoint, with the id of the first run.
GithubRunsReplies ==
  [code : {"200"}, run : RunIds] \cup [code : {"500"}, run : {0}]

\* Replies of the GitHub get-run endpoint; "raise": the request failed in
\* transport and requests.get raised instead of returning a response.
GithubRunReplies ==
  [code : {"200"}, status : {"in_progress"}, conclusion : {"null"}]
    \cup [code : {"200"}, status : {"completed"}, conclusion : {"success", "failure"}]
    \cup [code : {"500", "raise"}, status : {"null"}, conclusion : {"null"}]

\* Replies of the Azure get-run endpoint; "raise" as above.
AzureRunReplies ==
  [code : {"200"}, state : {"inProgress"}, result : {"null"}]
    \cup [code : {"200"}, state : {"completed"}, result : {"succeeded", "failed"}]
    \cup [code : {"500", "raise"}, state : {"null"}, result : {"null"}]

\* ----------------------------------------------------------------- state
VARIABLES
  config,               \* config["workflows"], read once
  github_token,         \* TRUE iff --github-token is present
  azure_token,          \* TRUE iff --azure-token is present
  wait_for_completion,  \* not --no-wait
  continue_on_error,    \* --continue-on-error
  timeout,              \* --timeout
  check_interval,       \* --check-interval
  pc,                   \* position of the single control thread
  index,                \* 1-based position of the entry being processed
  outcome,              \* how main ended: "running" until it ends
  trigger_success,      \* process_github_workflow's local
  run_id,               \* the controller's local run id (0: None or 0)
  elapsed,              \* time.time() - start_time at the head of the wait loop
  hist                  \* per entry: the remote calls issued and the result

vars == <<config, github_token, azure_token, wait_for_completion, continue_on_error,
          timeout, check_interval, pc, index, outcome, trigger_success, run_id,
          elapsed, hist>>

params == <<config, github_token, azure_token, wait_for_completion, continue_on_error,
            timeout, check_interval>>

\* What is recorded of one entry: the number of dispatch, run-lookup and
\* status calls and the time slept in the settle delay; whether the dispatch
\* reply was the success code; the run id in the reply that carries one
\* (Azure: dispatch, GitHub: run lookup); the run id the status requests
\* asked for; the conclusion or result of the completed status observed; what the wait
\* loop returned and, when it timed out, the time it had run; what the
\* controller returned to main and on which path.
NoHist ==
  [dispatches |-> 0, slept |-> 0, lookups |-> 0, polls |-> 0,
   trigger |-> "none", replied |-> 0, polled |-> 0, final |-> "none",
   waited |-> "none", spent |-> 0, returned |-> "none", reason |-> "none"]

Bool(b) == IF b THEN "true" ELSE "false"

N == Len(config)

item == config[index]

\* ------------------------------------------------------- pure decisions
\* main, line 301: neither token given.
NoTokens_Never(gh, az) == FALSE

NoTokens(gh, az) == ~gh /\ ~az

\* Slip: the enabled filter lets every entry through.
IsEnabled_Always(it) == TRUE

\* main, line 317: item.get("enabled", True).
IsEnabled(it) == it.enabled

\* Slip: main ignores the controller's return value.
MainStops_Never(success) == FALSE

\* main, lines 331 and 344: a controller that returned False stops the batch.
MainStops(success) == ~success

\* A wrapper called without a token returns before any request is sent
\* (lines 10-12, 36-38, 64-66).
Unsent == "unsent"

\* trigger_workflow, lines 10-28: True only for 204 No Content.
TriggerWorkflow(token, reply) == token /\ reply = "204"

\* Slip: returns True (1) on success, as trigger_workflow does, not the id.
TriggerAzurePipeline_Flag(token, reply) ==
  IF token /\ reply.code = "200" THEN 1 ELSE 0

\* trigger_azure_pipeline, lines 36-59: the "id" of a 200 reply, else None.
TriggerAzurePipeline(token, reply) ==
  IF token /\ reply.code = "200" THEN reply.id ELSE 0

\* get_workflow_run_id, lines 64-86: the id of the first listed run, else None.
GetWorkflowRunId(token, reply) ==
  IF token /\ reply.code = "200" THEN reply.run ELSE 0

\* Slip: the token check is dropped.
GithubTokenMissing_Never(token) == FALSE

\* process_github_workflow, line 194.
GithubTokenMissing(token) == ~token

\* process_azure_pipeline, line 245.
AzureTokenMissing(token) == ~token

\* Slip: the --no-wait return is dropped.
GithubNoWait_Never(wait) == FALSE

\* process_github_workflow, line 202: --no-wait returns right after dispatch.
GithubNoWait(wait) == ~wait

\* process_azure_pipeline, line 259.
AzureNoWait(wait) == ~wait

\* wait_for_github_workflow, line 91: no run id or no token.
GithubWaitRefuses(run, token) == run = 0 \/ ~token

\* wait_for_azure_pipeline, line 137.
AzureWaitRefuses(run, token) == run = 0 \/ ~token

\* process_github_workflow, line 206.
GithubStopsAfterTrigger(ok, coe) == ~ok /\ ~coe

\* process_github_workflow, lines 216-219: the return when no run id was found.
GithubNoRunIdReturn_True(coe) == TRUE

GithubNoRunIdReturn(coe) == coe

\* process_github_workflow, lines 231-235.
GithubReturnAfterWait(success, coe) == ~(~success /\ ~coe)

\* process_azure_pipeline, lines 263-266.
AzureNoRunIdReturn(coe) == coe

\* process_azure_pipeline, lines 278-282.
AzureReturnAfterWait(success, coe) == ~(~success /\ ~coe)

\* Slip: the loop gives up one time unit early.
GithubWithinTimeout_Early(e, t) == e + 1 < t

\* wait_for_github_workflow, line 103: the loop condition.
GithubWithinTimeout(e, t) == e < t

\* wait_for_azure_pipeline, line 153: the loop condition.
AzureWithinTimeout(e, t) == e < t

\* Slip: every completed run counts as a success.
GithubRunStatus_AnyCompleted(reply) ==
  IF reply.code = "200" /\ reply.status = "completed" THEN "succeeded" ELSE "pending"

\* wait_for_github_workflow, lines 110-127: what one status reply means.
GithubRunStatus(reply) ==
  IF reply.code = "200" /\ reply.status = "completed"
  THEN IF reply.conclusion = "success" THEN "succeeded" ELSE "failed"
  ELSE "pending"

\* wait_for_azure_pipeline, lines 160-180: what one status reply means.
AzureRunStatus_AnyCompleted(reply) ==
  IF reply.code = "200" /\ reply.state = "completed" THEN "succeeded" ELSE "pending"

AzureRunStatus(reply) ==
  IF reply.code = "200" /\ reply.state = "completed"
  THEN IF reply.result = "succeeded" THEN "succeeded" ELSE "failed"
  ELSE "pending"

\* process_github_workflow, lines 189-191, and process_azure_pipeline, lines
\* 239-242: the subscripts item["..."] succeed.
HasRequiredKeys_Lenient(it) == TRUE

HasRequiredKeys(it) == it.complete

\* main, line 313: the loop takes the entries one after the other.
NextIndex_Again(i) == i

NextIndex_Skip(i) == i + 2

NextIndex(i) == i + 1

\* main, lines 321 and 334: the branch an entry's "type" selects.
IsGithub(it) == it.type = "github"

IsAzure_Else(it) == it.type # "github"

IsAzure(it) == it.type = "azure"

\* process_github_workflow, line 212: the time after the settle delay.
SettleSleep_Skipped(t) == t

SettleSleep(t) == t + SettleDelay

\* ------------------------------------------------------------ transfers
\* The controller returns `success` to main with the entry recorded as h;
\* main stops the batch or prints [COMPLETE] and takes the next entry.
Returns(h, success, why) ==
  /\ hist' = [hist EXCEPT ![index] =
                [h EXCEPT !.returned = Bool(success), !.reason = why]]
  /\ IF MainStops(success)
     THEN pc' = "done" /\ outcome' = "halted" /\ index' = index
     ELSE pc' = "loop" /\ outcome' = outcome /\ index' = NextIndex(index)
  /\ trigger_success' = FALSE /\ run_id' = 0 /\ elapsed' = 0
  /\ UNCHANGED params

\* An exception leaves the controller and the loop; main's handler (lines
\* 352-355) prints it and main ends.
Raises(h, why) ==
  /\ hist' = [hist EXCEPT ![index] = [h EXCEPT !.returned = "raise", !.reason = why]]
  /\ pc' = "done" /\ outcome' = "exception" /\ index' = index
  /\ trigger_success' = FALSE /\ run_id' = 0 /\ elapsed' = 0
  /\ UNCHANGED params

\* ------------------------------------------------------------------ Init
Init ==
  /\ config \in Configs
  /\ github_token \in BOOLEAN
  /\ azure_token \in BOOLEAN
  /\ wait_for_completion \in BOOLEAN
  /\ continue_on_error \in BOOLEAN
  /\ timeout \in Timeouts
  /\ check_interval \in Intervals
  /\ pc = "start"
  /\ index = 1
  /\ outcome = "running"
  /\ trigger_success = FALSE
  /\ run_id = 0
  /\ elapsed = 0
  /\ hist = [i \in 1..Len(config) |-> NoHist]

\* --------------------------------------------------------------- actions
\* main, lines 297-311: the credential gate, then the configuration is read.
Start ==
  /\ pc = "start"
  /\ IF NoTokens(github_token, azure_token)
     THEN pc' = "done" /\ outcome' = "no_tokens"
     ELSE pc' = "loop" /\ outcome' = outcome
  /\ UNCHANGED <<params, index, trigger_success, run_id, elapsed, hist>>

\* main, line 350: the list is exhausted.
LoopEnd ==
  /\ pc = "loop"
  /\ index > N
  /\ pc' = "done"
  /\ outcome' = "success"
  /\ UNCHANGED <<params, index, trigger_success, run_id, elapsed, hist>>

\* main, lines 317-319: a disabled entry is skipped by `continue`.
SkipDisabled ==
  /\ pc = "loop"
  /\ index <= N
  /\ ~IsEnabled(item)
  /\ hist' = [hist EXCEPT ![index].reason = "disabled"]
  /\ index' = NextIndex(index)
  /\ UNCHANGED <<params, pc, outcome, trigger_success, run_id, elapsed>>

\* main, lines 322-346: an enabled entry goes to the controller of its type.
EnterController ==
  /\ pc = "loop"
  /\ index <= N
  /\ IsEnabled(item)
  /\ IsGithub(item) \/ IsAzure(item)
  /\ pc' = IF IsGithub(item) THEN "github" ELSE "azure"
  /\ UNCHANGED <<params, index, outcome, trigger_success, run_id, elapsed, hist>>

\* main, lines 322-348: an entry of another type runs neither branch.
PassOtherType ==
  /\ pc = "loop"
  /\ index <= N
  /\ IsEnabled(item)
  /\ ~IsGithub(item)
  /\ ~IsAzure(item)
  /\ hist' = [hist EXCEPT ![index].reason = "other_type"]
  /\ index' = NextIndex(index)
  /\ UNCHANGED <<params, pc, outcome, trigger_success, run_id, elapsed>>

\* process_github_workflow, lines 189-191: item["repo"] or item["workflow"]
\* raises KeyError.
GithubMissingKey ==
  /\ pc = "github"
  /\ ~HasRequiredKeys(item)
  /\ Raises(hist[index], "missing_key")

\* process_github_workflow, lines 194-196.
GithubNoToken ==
  /\ pc = "github"
  /\ HasRequiredKeys(item)
  /\ GithubTokenMissing(github_token)
  /\ Returns(hist[index], TRUE, "no_token")

\* process_github_workflow, lines 199-208: the dispatch call and what follows.
GithubTrigger ==
  /\ pc = "github"
  /\ HasRequiredKeys(item)
  /\ ~GithubTokenMissing(github_token)
  /\ \E reply \in (IF github_token THEN GithubDispatchReplies ELSE {Unsent}) :
       LET ok == TriggerWorkflow(github_token, reply)
           h == IF reply = Unsent THEN hist[index]
                ELSE [hist[index] EXCEPT !.dispatches = @ + 1,
                                         !.trigger = IF reply = "204" THEN "ok" ELSE "rejected"]
       IN  IF GithubNoWait(wait_for_completion)
           THEN Returns(h, TRUE, "no_wait")
           ELSE IF GithubStopsAfterTrigger(ok, continue_on_error)
           THEN Returns(h, FALSE, "trigger_failed")
           ELSE /\ hist' = [hist EXCEPT ![index] = h]
                /\ trigger_success' = ok
                /\ pc' = "github_settle"
                /\ UNCHANGED <<params, index, outcome, run_id, elapsed>>

\* process_github_workflow, lines 210-212: the settle delay.
GithubSettle ==
  /\ pc = "github_settle"
  /\ hist' = [hist EXCEPT ![index].slept = SettleSleep(@)]
  /\ pc' = "github_lookup"
  /\ UNCHANGED <<params, index, outcome, trigger_success, run_id, elapsed>>

\* process_github_workflow, lines 214-222, and wait_for_github_workflow,
\* lines 90-100: the run lookup, then the wait loop is entered.
GithubLookup ==
  /\ pc = "github_lookup"
  /\ \E reply \in (IF github_token THEN GithubRunsReplies
                   ELSE {[code |-> Unsent, run |-> 0]}) :
       LET id == GetWorkflowRunId(github_token, reply)
           h == IF reply.code = Unsent THEN hist[index]
                ELSE [hist[index] EXCEPT !.lookups = @ + 1, !.replied = reply.run]
       IN  IF id = 0
           THEN Returns(h, GithubNoRunIdReturn(continue_on_error), "no_run_id")
           ELSE IF GithubWaitRefuses(id, github_token)
           THEN Returns([h EXCEPT !.waited = "false"],
                        GithubReturnAfterWait(FALSE, continue_on_error), "refused")
           ELSE /\ hist' = [hist EXCEPT ![index] = h]
                /\ run_id' = id
                /\ elapsed' = 0
                /\ pc' = "github_wait"
                /\ UNCHANGED <<params, index, outcome, trigger_success>>

\* wait_for_github_workflow, lines 103-129: one turn of the loop. The status
\* request takes d; the sleep takes check_interval.
GithubPoll ==
  /\ pc = "github_wait"
  /\ GithubWithinTimeout(elapsed, timeout)
  /\ \E reply \in GithubRunReplies, d \in 0..MaxLatency :
       LET completed == reply.code = "200" /\ reply.status = "completed"
           h == [hist[index] EXCEPT !.polls = @ + 1, !.polled = run_id,
                                    !.final = IF completed THEN reply.conclusion ELSE @]
           st == GithubRunStatus(reply)
       IN  IF reply.code = "raise"
           THEN Raises(h, "poll_raised")
           ELSE IF st = "succeeded"
           THEN Returns([h EXCEPT !.waited = "true"],
                        GithubReturnAfterWait(TRUE, continue_on_error), "run_ok")
           ELSE IF st = "failed"
           THEN Returns([h EXCEPT !.waited = "false"],
                        GithubReturnAfterWait(FALSE, continue_on_error), "run_failed")
           ELSE /\ hist' = [hist EXCEPT ![index] = h]
                /\ elapsed' = elapsed + d + check_interval
                /\ UNCHANGED <<params, pc, index, outcome, trigger_success, run_id>>

\* wait_for_github_workflow, lines 131-132: the loop condition is false.
GithubTimeout ==
  /\ pc = "github_wait"
  /\ ~GithubWithinTimeout(elapsed, timeout)
  /\ Returns([hist[index] EXCEPT !.waited = "false", !.spent = elapsed],
             GithubReturnAfterWait(FALSE, continue_on_error), "timeout")

\* process_azure_pipeline, lines 239-242: a required key is missing.
AzureMissingKey ==
  /\ pc = "azure"
  /\ ~HasRequiredKeys(item)
  /\ Raises(hist[index], "missing_key")

\* process_azure_pipeline, lines 245-247.
AzureNoToken ==
  /\ pc = "azure"
  /\ HasRequiredKeys(item)
  /\ AzureTokenMissing(azure_token)
  /\ Returns(hist[index], TRUE, "no_token")

\* process_azure_pipeline, lines 250-269, and wait_for_azure_pipeline, lines
\* 136-150: the dispatch call, whose reply carries the run id.
AzureTrigger ==
  /\ pc = "azure"
  /\ HasRequiredKeys(item)
  /\ ~AzureTokenMissing(azure_token)
  /\ \E reply \in (IF azure_token THEN AzureDispatchReplies
                   ELSE {[code |-> Unsent, id |-> 0]}) :
       LET id == TriggerAzurePipeline(azure_token, reply)
           h == IF reply.code = Unsent THEN hist[index]
                ELSE [hist[index] EXCEPT !.dispatches = @ + 1,
                                         !.trigger = IF reply.code = "200" THEN "ok" ELSE "rejected",
                                         !.replied = reply.id]
       IN  IF AzureNoWait(wait_for_completion)
           THEN Returns(h, TRUE, "no_wait")
           ELSE IF id = 0
           THEN Returns(h, AzureNoRunIdReturn(continue_on_error), "no_run_id")
           ELSE IF AzureWaitRefuses(id, azure_token)
           THEN Returns([h EXCEPT !.waited = "false"],
                        AzureReturnAfterWait(FALSE, continue_on_error), "refused")
           ELSE /\ hist' = [hist EXCEPT ![index] = h]
                /\ run_id' = id
                /\ elapsed' = 0
                /\ pc' = "azure_wait"
                /\ UNCHANGED <<params, index, outcome, trigger_success>>

\* wait_for_azure_pipeline, lines 153-182: one turn of the loop.
AzurePoll ==
  /\ pc = "azure_wait"
  /\ AzureWithinTimeout(elapsed, timeout)
  /\ \E reply \in AzureRunReplies, d \in 0..MaxLatency :
       LET completed == reply.code = "200" /\ reply.state = "completed"
           h == [hist[index] EXCEPT !.polls = @ + 1, !.polled = run_id,
                                    !.final = IF completed THEN reply.result ELSE @]
           st == AzureRunStatus(reply)
       IN  IF reply.code = "raise"
           THEN Raises(h, "poll_raised")
           ELSE IF st = "succeeded"
           THEN Returns([h EXCEPT !.waited = "true"],
                        AzureReturnAfterWait(TRUE, continue_on_error), "run_ok")
           ELSE IF st = "failed"
           THEN Returns([h EXCEPT !.waited = "false"],
                        AzureReturnAfterWait(FALSE, continue_on_error), "run_failed")
           ELSE /\ hist' = [hist EXCEPT ![index] = h]
                /\ elapsed' = elapsed + d + check_interval
                /\ UNCHANGED <<params, pc, index, outcome, trigger_success, run_id>>

\* wait_for_azure_pipeline, lines 184-185: the loop condition is false.
AzureTimeout ==
  /\ pc = "azure_wait"
  /\ ~AzureWithinTimeout(elapsed, timeout)
  /\ Returns([hist[index] EXCEPT !.waited = "false", !.spent = elapsed],
             AzureReturnAfterWait(FALSE, continue_on_error), "timeout")

Next ==
  \/ Start
  \/ LoopEnd
  \/ SkipDisabled
  \/ EnterController
  \/ PassOtherType
  \/ GithubMissingKey
  \/ GithubNoToken
  \/ GithubTrigger
  \/ GithubSettle
  \/ GithubLookup
  \/ GithubPoll
  \/ GithubTimeout
  \/ AzureMissingKey
  \/ AzureNoToken
  \/ AzureTrigger
  \/ AzurePoll
  \/ AzureTimeout

Spec == Init /\ [][Next]_vars

\* ================================================================ claims
Entries == 1..N

\* No remote call was issued for entry i.
NoCalls(i) ==
  hist[i].dispatches = 0 /\ hist[i].lookups = 0 /\ hist[i].polls = 0

\* The credential the entry's type requires is present / absent.
CredentialPresent(i) ==
  \/ config[i].type = "github" /\ github_token
  \/ config[i].type = "azure" /\ azure_token

CredentialAbsent(i) ==
  \/ config[i].type = "github" /\ ~github_token /\ azure_token
  \/ config[i].type = "azure" /\ ~azure_token /\ github_token

WellFormed == \A i \in Entries : config[i].complete

\* Entry i failed: its dispatch was rejected, no run id could be obtained,
\* its run completed without success, or polling timed out.
Failed(i) ==
  \/ hist[i].trigger = "rejected"
  \/ hist[i].reason = "no_run_id"
  \/ hist[i].final \in {"failure", "failed"}
  \/ hist[i].reason = "timeout"

\* The batch went past entry i / was ended while at entry i.
Passed(i) == index > i
EndedAt(i) == pc = "done" /\ index = i /\ outcome \in {"halted", "exception"}

\* C1: with continue-on-error off and waiting requested, once an entry has
\* failed the batch has ended at that entry with the failure outcome (never
\* the all-processed outcome) and no remote call was issued for any later
\* entry.
C1_HaltOnFirstFailure ==
  (~continue_on_error /\ wait_for_completion) =>
    \A i \in Entries :
      Failed(i) =>
        /\ pc = "done" /\ outcome = "halted" /\ index = i
        /\ \A j \in (i + 1)..N : NoCalls(j) /\ hist[j].slept = 0

\* C1 witness: the first of two entries failed and the second, enabled, well
\* formed and with its credential present, was left untouched.
C1_Witness ==
  /\ ~continue_on_error /\ wait_for_completion /\ N >= 2
  /\ Failed(1) /\ hist[1].polls >= 1
  /\ config[2].enabled /\ config[2].complete /\ CredentialPresent(2)
  /\ pc = "done"

\* C2 (as claimed): with continue-on-error on and well-formed entries, no
\* failure of an entry keeps the later ones from being attempted: when main
\* has ended, every enabled entry whose credential is present has received
\* its dispatch call.
C2_EveryEntryDispatched ==
  (continue_on_error /\ WellFormed /\ pc = "done") =>
    \A i \in Entries :
      (config[i].enabled /\ CredentialPresent(i)) => hist[i].dispatches >= 1

\* C3: a disabled entry never receives a remote call or a settle delay, the
\* controller is never entered for it, the batch is never ended at it, and
\* the loop goes past it whatever the flags are.
C3_DisabledIsNoOp ==
  \A i \in Entries :
    ~config[i].enabled =>
      /\ NoCalls(i) /\ hist[i].slept = 0 /\ hist[i].returned = "none"
      /\ index = i => (pc \in {"start", "loop"} \/ outcome = "no_tokens")
      /\ Passed(i) => hist[i].reason = "disabled"

\* C3 witness: a disabled first entry was skipped and the second entry was
\* dispatched, with waiting requested and continue-on-error off.
C3_Witness ==
  /\ N >= 2 /\ ~config[1].enabled /\ hist[1].reason = "disabled"
  /\ wait_for_completion /\ ~continue_on_error
  /\ hist[2].dispatches = 1

\* C4 (as claimed): for every enabled entry whose credential is absent while
\* the other is present, no remote call is issued and the controller reports
\* success, so the batch is never ended at it.
C4_AbsentCredentialSkips ==
  \A i \in Entries :
    (config[i].enabled /\ CredentialAbsent(i)) =>
      /\ NoCalls(i) /\ hist[i].slept = 0
      /\ hist[i].returned \in {"none", "true"}
      /\ ~EndedAt(i)

\* C4 (amended): the same for every enabled entry that has the keys its type
\* requires; the loop goes past it on the controller's True.
C4_AbsentCredentialSkipsWellFormed ==
  \A i \in Entries :
    (config[i].enabled /\ config[i].complete /\ CredentialAbsent(i)) =>
      /\ NoCalls(i) /\ hist[i].slept = 0
      /\ hist[i].returned \in {"none", "true"}
      /\ ~EndedAt(i)
      /\ Passed(i) => hist[i].returned = "true"

\* C4 witness: a GitHub entry was skipped for want of the GitHub token and
\* the Azure entry after it was dispatched.
C4_Witness ==
  /\ N >= 2 /\ ~github_token /\ azure_token
  /\ config[1].type = "github" /\ config[1].enabled /\ config[1].complete
  /\ hist[1].returned = "true" /\ hist[1].reason = "no_token"
  /\ wait_for_completion /\ ~continue_on_error
  /\ hist[2].dispatches = 1

\* What C5 says of one entry when waiting is off: at most one dispatch call,
\* no run lookup, no status request, no settle delay, and the controller has
\* returned True as soon as the dispatch call was made.
NoWaitEntry(i) ==
  /\ hist[i].dispatches <= 1 /\ hist[i].lookups = 0 /\ hist[i].polls = 0
  /\ hist[i].slept = 0
  /\ hist[i].dispatches = 1 => hist[i].returned = "true"

C6_PollCountAtTimeout ==
  \A i \in Entries :
    hist[i].reason = "timeout" =>
      /\ hist[i].polls >= timeout \div check_interval
      /\ hist[i].polls <= (timeout \div check_interval) + 1

\* C6 (as claimed, on the timeouts >= 0): the same bounds, which a status
\* request that takes time already breaks from below.
C6_PollCountAtTimeoutNonNegative ==
  \A i \in Entries :
    (hist[i].reason = "timeout" /\ timeout >= 0) =>
      /\ hist[i].polls >= timeout \div check_interval
      /\ hist[i].polls <= (timeout \div check_interval) + 1

\* C6 (amended): for a timeout >= 0 the loop that timed out has issued at
\* most floor(timeout / interval) + 1 status requests, and at least
\* floor(timeout / interval) when the requests themselves took no time (the
\* loop ran for exactly polls * interval).
C6_PollCountAtTimeoutNoLatency ==
  \A i \in Entries :
    (hist[i].reason = "timeout" /\ timeout >= 0) =>
      /\ hist[i].polls <= (timeout \div check_interval) + 1
      /\ hist[i].spent = hist[i].polls * check_interval =>
           hist[i].polls >= timeout \div check_interval

\* C6 witness: a loop timed out after floor(timeout / interval) + 1 status
\* requests that took no time, the timeout not being a multiple of the
\* interval.
C6_Witness ==
  \E i \in Entries :
    /\ hist[i].reason = "timeout" /\ timeout > 0
    /\ timeout % check_interval # 0
    /\ hist[i].spent = hist[i].polls * check_interval
    /\ hist[i].polls = (timeout \div check_interval) + 1

\* C7 (as claimed): for a GitHub entry no run lookup and no status request is
\* ever issued once its dispatch was rejected.
C7_NoLookupAfterRejectedDispatch ==
  \A i \in Entries :
    (config[i].type = "github" /\ hist[i].trigger = "rejected") =>
      hist[i].lookups = 0 /\ hist[i].polls = 0 /\ hist[i].slept = 0

\* C8 (as claimed): a failed status request never ends the polling loop or
\* the batch: main's exception handler is never reached from an entry that
\* was being polled.
C8_FailedPollNeverEndsBatch ==
  outcome = "exception" => hist[index].polls = 0

\* C9: for a GitHub entry whose dispatch was answered 204, a completed status
\* is observed only with waiting requested, a positive timeout and the run
\* the lookup returned; if its conclusion is success the wait returns True
\* and the controller reports success; otherwise the wait returns False and
\* the controller reports failure unless continue-on-error is on.
C9_GithubFirstCompletedDecides ==
  \A i \in Entries :
    (config[i].type = "github" /\ hist[i].trigger = "ok" /\ hist[i].final # "none") =>
      /\ wait_for_completion /\ timeout > 0
      /\ hist[i].lookups = 1 /\ hist[i].replied # 0 /\ hist[i].polled = hist[i].replied
      /\ IF hist[i].final = "success"
         THEN hist[i].waited = "true" /\ hist[i].returned = "true"
         ELSE hist[i].waited = "false" /\ hist[i].returned = Bool(continue_on_error)

\* C9 witness: a GitHub run was seen pending, then completed with success,
\* and the controller reported success with continue-on-error off.
C9_Witness ==
  \E i \in Entries :
    /\ config[i].type = "github" /\ hist[i].trigger = "ok"
    /\ hist[i].final = "success" /\ hist[i].polls >= 2
    /\ hist[i].returned = "true" /\ ~continue_on_error

\* C10: an Azure entry never gets a run lookup or a settle delay; its status
\* requests ask for the run id its own dispatch reply carried; a completed
\* status with result succeeded makes the wait and the controller return
\* True.
C10_AzurePollsDispatchedRun ==
  \A i \in Entries :
    config[i].type = "azure" =>
      /\ hist[i].lookups = 0 /\ hist[i].slept = 0
      /\ hist[i].polls > 0 =>
           /\ wait_for_completion /\ hist[i].trigger = "ok"
           /\ hist[i].replied # 0 /\ hist[i].polled = hist[i].replied
      /\ hist[i].final = "succeeded" =>
           hist[i].waited = "true" /\ hist[i].returned = "true"

\* C10 witness: the Azure run 42 was polled and succeeded.
C10_Witness ==
  \E i \in Entries :
    /\ config[i].type = "azure" /\ hist[i].replied = 42
    /\ hist[i].polled = 42 /\ hist[i].polls >= 1
    /\ hist[i].final = "succeeded" /\ hist[i].returned = "true"

\* The batch stands at entry i as the statement about a malformed entry
\* allows: not yet reached by a controller, inside the key reads, or ended
\* with the exception caught by main (or by the credential gate before).
HaltedByMissingKey(i) ==
  /\ NoCalls(i) /\ hist[i].slept = 0
  /\ \A j \in (i + 1)..N : hist[j] = NoHist
  /\ index <= i
  /\ outcome # "success"
  /\ index = i =>
       /\ pc \in {"start", "loop", "github", "azure", "done"}
       /\ pc = "done" =>
            \/ outcome = "no_tokens"
            \/ outcome = "exception" /\ hist[i].reason = "missing_key"

\* C11: an entry that lacks a key its type requires halts the batch: no
\* remote call is issued for it or for any later entry, under both
\* continue-on-error settings and with or without its credential, the batch
\* never goes past it, and the exception ends main inside its handler.
C11_MissingKeyHalts ==
  \A i \in Entries : ~config[i].complete => HaltedByMissingKey(i)

\* C11 for enabled entries: a disabled entry is skipped before any of its
\* other keys is read (lines 317-319).
C11_MissingKeyHaltsEnabled ==
  \A i \in Entries :
    (config[i].enabled /\ ~config[i].complete) => HaltedByMissingKey(i)

\* C11 witness: with continue-on-error on, the batch ended with the caught
\* exception at a malformed first entry whose credential is absent, and the
\* well-formed enabled second entry was never touched.
C11_Witness ==
  /\ N = 2 /\ continue_on_error
  /\ config[1].enabled /\ ~config[1].complete /\ CredentialAbsent(1)
  /\ config[2].enabled /\ config[2].complete /\ CredentialPresent(2)
  /\ pc = "done" /\ index = 1 /\ outcome = "exception"
  /\ hist[1].reason = "missing_key" /\ hist[2] = NoHist

\* Processing of entry i has begun / has ended (skipped, passed over,
\* returned by its controller, or left by an exception).
Begun(i) == hist[i] # NoHist \/ (index = i /\ pc \notin {"start", "loop"})
Ended(i) == hist[i].reason # "none"

\* C12: entries are processed strictly in configuration order, one at a
\* time: nothing has been done for an entry after the current one, every
\* entry before the current one has ended, so the dispatches follow the
\* configured order and no call for entry j precedes the end of an entry
\* i < j; the only entry in progress, and the only run being polled, is the
\* current one's.
C12_InOrderOneAtATime ==
  /\ index \in 1..(N + 1)
  /\ \A j \in Entries : j > index => hist[j] = NoHist
  /\ \A i \in Entries : i < index => Ended(i)
  /\ \A i \in Entries : (Begun(i) /\ ~Ended(i)) => i = index
  /\ pc \in {"github_wait", "azure_wait"} =>
       /\ index \in Entries /\ run_id # 0 /\ ~Ended(index)
       /\ hist[index].polls > 0 => hist[index].polled = run_id
       /\ \A i \in Entries \ {index} : Ended(i) \/ hist[i] = NoHist

\* C12 witness: with waiting requested, the second entry's run is being
\* polled after the first entry's run was polled and its processing ended.
C12_Witness ==
  /\ N = 2 /\ wait_for_completion /\ index = 2
  /\ hist[1].polls >= 1 /\ hist[1].dispatches = 1 /\ Ended(1)
  /\ pc \in {"github_wait", "azure_wait"}
  /\ hist[2].dispatches = 1 /\ hist[2].polls >= 1 /\ ~Ended(2)

\* C13: with both credentials absent the batch ends before any work: no
\* entry is processed (not even skipped or passed over), no remote call is
\* issued, and the run never reports the all-processed outcome.
C13_NoCredentialsNoWork ==
  (~github_token /\ ~azure_token) =>
    /\ \A i \in Entries : hist[i] = NoHist
    /\ index = 1
    /\ pc \in {"start", "done"}
    /\ outcome \in {"running", "no_tokens"}
    /\ pc = "done" => outcome = "no_tokens"

\* C13 witness: the batch ended at the credential gate with two enabled,
\* well-formed entries of both types configured.
C13_Witness ==
  /\ ~github_token /\ ~azure_token
  /\ pc = "done" /\ outcome = "no_tokens"
  /\ N = 2 /\ config[1].type = "github" /\ config[2].type = "azure"
  /\ \A i \in Entries : config[i].enabled /\ config[i].complete

\* The wait loop of entry i is running.
Polling(i) == index = i /\ pc \in {"github_wait", "azure_wait"}

\* The conclusion that counts as success for the type of entry i.
SuccessOf(i) == IF config[i].type = "github" THEN "success" ELSE "succeeded"

\* C14: the wait returns True exactly when a status request made within the
\* timeout observed the completed status with the success conclusion; it
\* returns at the first completed status, whatever its conclusion, so no
\* status request follows a terminal status; and a status that is not
\* completed leaves the wait loop running.
C14_WaitTrueIffCompletedSuccess ==
  \A i \in Entries :
    /\ hist[i].waited = "true" <=> hist[i].final = SuccessOf(i)
    /\ hist[i].waited = "true" => hist[i].polls >= 1 /\ timeout > 0
    /\ hist[i].final # "none" =>
         /\ hist[i].polls >= 1 /\ ~Polling(i)
         /\ hist[i].waited = Bool(hist[i].final = SuccessOf(i))
         /\ hist[i].reason \in {"run_ok", "run_failed"}
    /\ (hist[i].polls >= 1 /\ hist[i].final = "none" /\ hist[i].returned = "none") =>
         Polling(i)

\* C14 witness: an Azure wait saw a status that was not completed, went on,
\* then returned False at a completed status with result failed.
C14_Witness ==
  \E i \in Entries :
    /\ config[i].type = "azure" /\ hist[i].polls >= 2
    /\ hist[i].final = "failed" /\ hist[i].waited = "false"
    /\ hist[i].reason = "run_failed"

\* With waiting requested, no run id could be obtained for entry i: the
\* GitHub run lookup came back empty or unsuccessful, or the Azure dispatch
\* reply carried no id.
NoRunId(i) ==
  /\ wait_for_completion /\ hist[i].replied = 0
  /\ \/ config[i].type = "github" /\ hist[i].lookups = 1
     \/ config[i].type = "azure" /\ hist[i].dispatches = 1

\* C15: when waiting is requested and no run id can be obtained, no status
\* request is issued and the entry counts as a failure: the controller
\* returns continue_on_error, so the batch halts at the entry when
\* continue-on-error is off and goes on to the next entry when it is on.
C15_NoRunIdIsFailure ==
  \A i \in Entries :
    NoRunId(i) =>
      /\ hist[i].polls = 0 /\ hist[i].waited = "none"
      /\ hist[i].returned = Bool(continue_on_error)
      /\ continue_on_error => Passed(i)
      /\ ~continue_on_error =>
           pc = "done" /\ index = i /\ outcome = "halted"

\* C15 witness: a GitHub dispatch was accepted, the run lookup found no run,
\* and with continue-on-error off the batch halted before the second entry.
C15_Witness ==
  /\ N = 2 /\ ~continue_on_error /\ wait_for_completion
  /\ config[1].type = "github" /\ hist[1].trigger = "ok"
  /\ hist[1].lookups = 1 /\ hist[1].replied = 0 /\ hist[1].polls = 0
  /\ config[2].enabled /\ hist[2] = NoHist
  /\ pc = "done" /\ outcome = "halted"

\* The single thread of main always takes its next step: nothing in the
\* program blocks but the bounded sleeps and the requests, which return or
\* raise.
FairSpec == Spec /\ WF_vars(Next)

\* The wait loop of entry i ran and was left.
PollingEnded(i) == hist[i].polls >= 1 /\ ~Polling(i)

\* C16: every batch run terminates, and a wait loop is left only by a
\* completed status or by the timeout running out. The second half as a
\* state predicate: a wait loop that was left saw a completed status or
\* found the timeout exhausted.
C16_PollingEndsByStatusOrTimeout ==
  \A i \in Entries :
    PollingEnded(i) =>
      hist[i].final # "none" \/ hist[i].reason = "timeout"

\* C16, the first half: main returns in every run (under FairSpec).
C16_MainReturns == <>(pc = "done")

\* The controller of GitHub entry i is at position p.
GithubAt(i, p) == index = i /\ pc = p

C18_ContinueOnErrorAlwaysSucceeds ==
  (continue_on_error /\ WellFormed /\ (github_token \/ azure_token)) =>
    /\ \A i \in Entries : hist[i].returned # "false"
    /\ outcome \in {"running", "success"}
    /\ pc = "done" => outcome = "success" /\ index = N + 1

RECURSIVE DispatchesUpTo(_)
\* The number of dispatch calls issued for entries 1..n.
DispatchesUpTo(n) ==
  IF n = 0 THEN 0 ELSE hist[n].dispatches + DispatchesUpTo(n - 1)

EnabledEntries == { i \in Entries : config[i].enabled }

\* C19: each entry is dispatched at most once, and only if it is enabled:
\* the total number of dispatch calls in a batch never exceeds the number of
\* enabled entries; nothing retries or re-dispatches.
C19_AtMostOneDispatchPerEntry ==
  /\ \A i \in Entries : hist[i].dispatches <= 1
  /\ \A i \in Entries : hist[i].dispatches = 1 => config[i].enabled
  /\ DispatchesUpTo(N) <= Cardinality(EnabledEntries)

\* C19 witness: a batch with a disabled entry ended after the dispatch of
\* its one enabled entry was rejected and its run was never found.
C19_Witness ==
  /\ N = 2 /\ ~config[1].enabled /\ config[2].enabled
  /\ pc = "done" /\ outcome = "success"
  /\ hist[2].trigger = "rejected" /\ hist[2].reason = "no_run_id"
  /\ DispatchesUpTo(N) = 1

\* C20: an enabled entry whose type is neither github nor azure (or is
\* missing) issues no remote call, enters no controller, is reported as
\* finished and never halts the batch: the batch goes on to the next entry,
\* under every setting.
C20_OtherTypeIsNoOp ==
  \A i \in Entries :
    (config[i].enabled /\ config[i].type \notin {"github", "azure"}) =>
      /\ NoCalls(i) /\ hist[i].slept = 0
      /\ hist[i].returned = "none"
      /\ hist[i].reason \in {"none", "other_type"}
      /\ index = i => pc \in {"start", "loop"} \/ outcome = "no_tokens"
      /\ Passed(i) => hist[i].reason = "other_type"
      /\ ~EndedAt(i)

\* C20 witness: with continue-on-error off, the batch went past an entry of
\* another type and dispatched the entry after it.
C20_Witness ==
  /\ N = 2 /\ ~continue_on_error
  /\ config[1].enabled /\ config[1].type = "other"
  /\ hist[1].reason = "other_type" /\ NoCalls(1)
  /\ hist[2].dispatches = 1

====
